---- MODULE Spec2Model ----
(***************************************************************************)
(* A model of fast-jwt's signer (createSigner / sign) and decoder          *)
(* (createDecoder / decode).                                               *)
(*                                                                         *)
(* JavaScript values are records [type, num, str] so that any two values   *)
(* can be compared.  An object is a function from its possible property    *)
(* names to values; a property that the object does not have is Absent, a  *)
(* property that it has with the value undefined is Undef.  Property order *)
(* is not modelled.                                                        *)
(*                                                                         *)
(* A string that travels through the codec is a sequence of characters.    *)
(* A character is the separator ".", a base64 digit (its 6-bit value), a   *)
(* base64 padding character, or one of two opaque blocks: the base64url    *)
(* text of a serialized JSON object, and the output of the external        *)
(* signature primitive.                                                    *)
(***************************************************************************)
EXTENDS Integers, Sequences, FiniteSets, TLC

\* ------------------------------------------------------------------ bounds
MaxTokenLen == 4
MaxStrLen == 2
MaxCalls == 2

\* ------------------------------------------------------------ JS values
Undef == [type |-> "undefined", num |-> 0, str |-> ""]
Absent == [type |-> "absent", num |-> 0, str |-> ""]
Num(n) == [type |-> "number", num |-> n, str |-> ""]
Str(s) == [type |-> "string", num |-> 0, str |-> s]
Bool(b) == [type |-> "boolean", num |-> 0, str |-> IF b THEN "true" ELSE "false"]

\* if (v), v || w: undefined, 0, '' and false are falsy
Truthy(v) ==
  CASE v.type = "number" -> v.num # 0
    [] v.type = "string" -> v.str # ""
    [] v.type = "boolean" -> v.str = "true"
    [] OTHER -> FALSE

\* obj.k: a missing property reads as undefined
Get(obj, k) == IF k \in DOMAIN obj /\ obj[k].type # "absent" THEN obj[k] ELSE Undef

\* { ...a, ...b }: every own property of b, undefined ones included, replaces a's
Spread(a, b) == [k \in DOMAIN a |-> IF b[k].type # "absent" THEN b[k] ELSE a[k]]

\* JSON.stringify(obj): properties whose value is undefined are left out
Stringify(obj) ==
  LET kept == {k \in DOMAIN obj : obj[k].type \notin {"absent", "undefined"}}
  IN [k \in kept |-> obj[k]]

\* --------------------------------------------------------------- the codec
Dot == [kind |-> "dot", v |-> 0]
Pad == [kind |-> "pad", v |-> 0]
Digit(n) == [kind |-> "b64", v |-> n]

RECURSIVE Base64(_)
\* Buffer.toString('base64'): 3 bytes give 4 digits, the tail is padded with "="
Base64(bytes) ==
  IF Len(bytes) = 0 THEN <<>>
  ELSE IF Len(bytes) = 1 THEN
    <<Digit(bytes[1] \div 4), Digit((bytes[1] % 4) * 16), Pad, Pad>>
  ELSE IF Len(bytes) = 2 THEN
    <<Digit(bytes[1] \div 4),
      Digit((bytes[1] % 4) * 16 + (bytes[2] \div 16)),
      Digit((bytes[2] % 16) * 4), Pad>>
  ELSE
    <<Digit(bytes[1] \div 4),
      Digit((bytes[1] % 4) * 16 + (bytes[2] \div 16)),
      Digit((bytes[2] % 16) * 4 + (bytes[3] \div 64)),
      Digit(bytes[3] % 64)>> \o Base64(SubSeq(bytes, 4, Len(bytes)))

\* .replace(base64UrlMatcher, base64UrlReplacer): "=" is dropped; "+" and "/"
\* become "-" and "_", which keep their 6-bit values
base64UrlReplace(chars) == SelectSeq(chars, LAMBDA c : c.kind # "pad")

RECURSIVE FromBase64(_)
\* Buffer.from(s, 'base64'): both alphabets are read, padding is optional, and
\* a tail of n digits gives floor(6n/8) bytes
FromBase64(digits) ==
  IF Len(digits) < 2 THEN <<>>
  ELSE IF Len(digits) = 2 THEN
    <<digits[1].v * 4 + (digits[2].v \div 16)>>
  ELSE IF Len(digits) = 3 THEN
    <<digits[1].v * 4 + (digits[2].v \div 16),
      (digits[2].v % 16) * 16 + (digits[3].v \div 4)>>
  ELSE
    <<digits[1].v * 4 + (digits[2].v \div 16),
      (digits[2].v % 16) * 16 + (digits[3].v \div 4),
      (digits[3].v % 4) * 64 + digits[4].v>> \o FromBase64(SubSeq(digits, 5, Len(digits)))

\* TextEncoder/TextDecoder for code points below 0x800: one byte below 0x80,
\* two bytes otherwise; a byte that starts no valid sequence reads as U+FFFD
RECURSIVE Utf8(_)
Utf8(chars) ==
  IF Len(chars) = 0 THEN <<>>
  ELSE (IF chars[1] < 128 THEN <<chars[1]>>
        ELSE <<192 + (chars[1] \div 64), 128 + (chars[1] % 64)>>) \o Utf8(Tail(chars))

RECURSIVE FromUtf8(_)
FromUtf8(bytes) ==
  IF Len(bytes) = 0 THEN <<>>
  ELSE IF bytes[1] < 128 THEN <<bytes[1]>> \o FromUtf8(Tail(bytes))
  ELSE IF bytes[1] >= 194 /\ bytes[1] < 224 /\ Len(bytes) >= 2
          /\ bytes[2] >= 128 /\ bytes[2] < 192
    THEN <<(bytes[1] - 192) * 64 + (bytes[2] - 128)>> \o FromUtf8(SubSeq(bytes, 3, Len(bytes)))
  ELSE <<65533>> \o FromUtf8(Tail(bytes))

\* The base64url text of JSON.stringify(obj), kept as one opaque block
JsonBlock(obj) == <<[kind |-> "json", v |-> 0, text |-> Stringify(obj)]>>

\* Buffer.from(segment, 'base64').toString('utf-8')
DecodeSegment(seg) ==
  IF Len(seg) = 1 /\ seg[1].kind = "json" THEN [kind |-> "jsontext", text |-> seg[1].text, chars |-> <<>>]
  ELSE IF \A i \in 1..Len(seg) : seg[i].kind \in {"b64", "pad"} THEN
    [kind |-> "chars", text |-> <<>>,
     chars |-> FromUtf8(FromBase64(SelectSeq(seg, LAMBDA c : c.kind = "b64")))]
  ELSE [kind |-> "garbage", text |-> <<>>, chars |-> <<>>]

\* JSON.parse: the text of an object gives the object, a run of the digit "1"
\* gives a number, anything else over the modelled alphabet is a SyntaxError
JsonParse(t) ==
  IF t.kind = "jsontext" THEN [ok |-> TRUE, kind |-> "object", obj |-> t.text, chars |-> <<>>]
  ELSE IF t.kind = "chars" /\ Len(t.chars) > 0 /\ \A i \in 1..Len(t.chars) : t.chars[i] = 49
    THEN [ok |-> TRUE, kind |-> "number", obj |-> <<>>, chars |-> t.chars]
  ELSE [ok |-> FALSE, kind |-> "error", obj |-> <<>>, chars |-> <<>>]

\* ------------------------------------------------------------ the decoder
\* "abc".indexOf('.') and lastIndexOf('.'), 0-based, -1 when there is none
indexOf(s) ==
  IF \E i \in 1..Len(s) : s[i].kind = "dot"
    THEN (CHOOSE i \in 1..Len(s) : s[i].kind = "dot" /\ \A j \in 1..(i - 1) : s[j].kind # "dot") - 1
    ELSE 0 - 1

lastIndexOf(s) ==
  IF \E i \in 1..Len(s) : s[i].kind = "dot"
    THEN (CHOOSE i \in 1..Len(s) : s[i].kind = "dot" /\ \A j \in (i + 1)..Len(s) : s[j].kind # "dot") - 1
    ELSE 0 - 1

\* s.slice(from, to)
slice(s, from, to) == SubSeq(s, from + 1, to)

Thrown(code, stage) ==
  [status |-> "thrown", code |-> code, stage |-> stage, complete |-> FALSE,
   header |-> <<>>, payload |-> <<>>, signature |-> <<>>, input |-> <<>>]

Returned(complete, header, payload, signature, input) ==
  [status |-> "returned", code |-> "", stage |-> "", complete |-> complete,
   header |-> header, payload |-> payload, signature |-> signature, input |-> input]

\* createDecoder(options): { json: true, ...options }
createDecoder(options) ==
  [json |-> IF options.json.type = "absent" THEN Bool(TRUE) ELSE options.json,
   complete |-> Get(options, "complete")]

\* The format test with > for >=: a token with one separator passes
isMalformedStrict(firstSeparator, lastSeparator) ==
  firstSeparator = 0 - 1 \/ firstSeparator > lastSeparator

\* the format test of decode
isMalformed(firstSeparator, lastSeparator) ==
  firstSeparator = 0 - 1 \/ firstSeparator >= lastSeparator

\* decode({ json, complete }, token); token is [type, chars]
decode(cfg, tokenArg) ==
  IF tokenArg.type \notin {"string", "buffer"} THEN Thrown("invalidType", "type")
  ELSE
    LET token == tokenArg.chars
        firstSeparator == indexOf(token)
        lastSeparator == lastIndexOf(token)
    IN IF isMalformed(firstSeparator, lastSeparator) THEN Thrown("malformed", "format")
       ELSE
         LET header == JsonParse(DecodeSegment(slice(token, 0, firstSeparator)))
             raw == DecodeSegment(slice(token, firstSeparator + 1, lastSeparator))
             isJwt == header.kind = "object" /\ Get(header.obj, "typ") = Str("JWT")
             parsed == JsonParse(raw)
         IN IF ~header.ok THEN Thrown("malformed", "header")
            ELSE IF (cfg.json = Bool(TRUE) \/ isJwt) /\ ~parsed.ok THEN Thrown("malformed", "payload")
            ELSE
              LET payload == IF cfg.json = Bool(TRUE) \/ isJwt
                               THEN [kind |-> parsed.kind, obj |-> parsed.obj, chars |-> parsed.chars]
                               ELSE [kind |-> "string", obj |-> <<>>, chars |-> raw.chars]
              IN IF Truthy(cfg.complete)
                   THEN Returned(TRUE, header, payload,
                                 slice(token, lastSeparator + 1, Len(token)),
                                 slice(token, 0, lastSeparator))
                   ELSE Returned(FALSE, <<>>, payload, <<>>, <<>>)

\* -------------------------------------------------------------- the signer
\* crypto.js: the algorithm names
hsAlgorithms == {"HS256", "HS384", "HS512"}
esAlgorithms == {"ES256", "ES384", "ES512"}
rsaAlgorithms == {"RS256", "RS384", "RS512", "PS256", "PS384", "PS512"}
edAlgorithms == {"EdDSA"}

\* name.slice(0, 2) for the names above
Prefix(name) ==
  CASE name \in hsAlgorithms -> "HS"
    [] name \in esAlgorithms -> "ES"
    [] name \in {"RS256", "RS384", "RS512"} -> "RS"
    [] name \in {"PS256", "PS384", "PS512"} -> "PS"
    [] name = "EdDSA" -> "Ed"
    [] OTHER -> "??"

\* The check without the RS/PS exception: the two prefixes must be equal
checkSamePrefix(expected, actual) ==
  Prefix(expected) \in {"RS", "PS", "ES", "Ed"} => Prefix(expected) = Prefix(actual)

\* checkIsCompatibleAlgorithm(expected, actual): TRUE when it does not throw
checkIsCompatibleAlgorithm(expected, actual) ==
  LET expectedType == Prefix(expected)
      actualType == Prefix(actual)
  IN IF expectedType = "RS" \/ expectedType = "PS" THEN actualType = "RS"
     ELSE IF expectedType = "ES" \/ expectedType = "Ed" THEN expectedType = actualType
     ELSE TRUE

\* crypto.js detectPrivateKeyAlgorithm(key): the algorithm the key material
\* supports; "" stands for the InvalidKey error on material it cannot classify
detectPrivateKeyAlgorithm(key) ==
  CASE key.material = "secret" -> "HS256"
    [] key.material = "rsa" -> "RS256"
    [] key.material = "ec" -> "ES256"
    [] key.material = "ed" -> "EdDSA"
    [] OTHER -> ""

\* prepareKeyOrSecret(key, algorithm): a string becomes a Buffer
prepareKeyOrSecret(key, algorithm) ==
  IF key.type = "string" THEN [key EXCEPT !.type = "buffer"] ELSE key

\* crypto.js createSignature(algorithm, key, input): the signature, one opaque block
createSignature(algorithm, key, input) ==
  <<[kind |-> "sig", v |-> 0, alg |-> algorithm, key |-> key.material, input |-> input]>>

NoKey == [type |-> "undefined", material |-> ""]
HeaderKeys == {"alg", "typ", "kid", "x"}
FixedKeys == {"jti", "aud", "iss", "sub", "nonce"}
PayloadKeys == {"iat", "exp", "nbf", "a"} \cup FixedKeys
NoHeader == [k \in HeaderKeys |-> Absent]
NoPayload == [k \in PayloadKeys |-> Absent]

\* if (key): undefined is falsy, the modelled keys of other types are truthy
KeyGiven(key) == key.type # "undefined"

CtorError(code) == [ok |-> FALSE, code |-> code, context |-> <<>>]

\* option && (typeof option !== 'number' || option < 0)
BadNumber(v) == Truthy(v) /\ (v.type # "number" \/ v.num < 0)

\* option && typeof option !== 'string' (aud may also be an array; no array is modelled)
BadString(v) == Truthy(v) /\ v.type # "string"

\* createSigner(options): the bound context, or the error it throws
createSigner(o) ==
  LET algorithm == Get(o, "algorithm")
      clockTimestamp == IF o.clockTimestamp.type = "absent" THEN Num(0) ELSE o.clockTimestamp
      keyType == o.key.type
      literal == KeyGiven(o.key) /\ keyType # "function"
      availableAlgorithm == detectPrivateKeyAlgorithm(o.key)
      finalAlgorithm == IF literal /\ ~Truthy(algorithm) THEN Str(availableAlgorithm) ELSE algorithm
  IN IF Truthy(algorithm) /\ algorithm.str # "none"
        /\ algorithm.str \notin (hsAlgorithms \cup esAlgorithms \cup rsaAlgorithms \cup edAlgorithms)
       THEN CtorError("invalidOption")
     ELSE IF algorithm = Str("none") /\ KeyGiven(o.key) THEN CtorError("invalidOption")
     ELSE IF algorithm # Str("none")
             /\ (~KeyGiven(o.key) \/ keyType \notin {"string", "buffer", "function"})
       THEN CtorError("invalidOption")
     ELSE IF literal /\ availableAlgorithm = "" THEN CtorError("invalidKey")
     ELSE IF literal /\ Truthy(algorithm)
             /\ ~checkIsCompatibleAlgorithm(algorithm.str, availableAlgorithm)
       THEN CtorError("invalidKey")
     ELSE IF BadNumber(Get(o, "expiresIn")) \/ BadNumber(Get(o, "notBefore"))
             \/ BadNumber(clockTimestamp) THEN CtorError("invalidOption")
     ELSE IF \E k \in FixedKeys \cup {"kid"} : BadString(Get(o, k))
       THEN CtorError("invalidOption")
     ELSE IF o.header.type \notin {"undefined", "object"} THEN CtorError("invalidOption")
     ELSE [ok |-> TRUE, code |-> "",
           context |->
             [key |-> IF literal THEN prepareKeyOrSecret(o.key, finalAlgorithm) ELSE o.key,
              algorithm |-> finalAlgorithm,
              noTimestamp |-> Get(o, "noTimestamp"),
              mutatePayload |-> Get(o, "mutatePayload"),
              clockTimestamp |-> clockTimestamp,
              expiresIn |-> Get(o, "expiresIn"),
              notBefore |-> Get(o, "notBefore"),
              kid |-> Get(o, "kid"),
              isAsync |-> keyType = "function",
              additionalHeader |-> o.header.obj,
              fixedPayload |-> [k \in PayloadKeys |-> IF k \in FixedKeys THEN Get(o, k) ELSE Absent]]]

\* The base with the first two operands swapped: clockTimestamp || payload.iat * 1000 || Date.now()
TimestampBaseClockFirst(payload, clockTimestamp, now) ==
  IF Truthy(clockTimestamp) THEN clockTimestamp.num
  ELSE IF Get(payload, "iat").type = "number" /\ Get(payload, "iat").num * 1000 # 0
    THEN Get(payload, "iat").num * 1000
  ELSE now

\* sign, line 96: payload.iat * 1000 || clockTimestamp || Date.now()
TimestampBase(payload, clockTimestamp, now) ==
  IF Get(payload, "iat").type = "number" /\ Get(payload, "iat").num * 1000 # 0
    THEN Get(payload, "iat").num * 1000
  ELSE IF Truthy(clockTimestamp) THEN clockTimestamp.num
  ELSE now

\* sign, lines 101-103: the computed iat, exp and nbf
TimingClaims(ctx, iat) ==
  [k \in PayloadKeys |->
     CASE k = "iat" -> IF Truthy(ctx.noTimestamp) THEN Undef ELSE Num(iat \div 1000)
       [] k = "exp" -> IF Truthy(ctx.expiresIn) THEN Num((iat + ctx.expiresIn.num) \div 1000) ELSE Undef
       [] k = "nbf" -> IF Truthy(ctx.notBefore) THEN Num((iat + ctx.notBefore.num) \div 1000) ELSE Undef
       [] OTHER -> Absent]

\* sign, lines 98-104
FinalPayload(ctx, payload, now) ==
  Spread(Spread(payload, ctx.fixedPayload),
         TimingClaims(ctx, TimestampBase(payload, ctx.clockTimestamp, now)))

\* Object.assign(payload, finalPayload) done whatever mutatePayload is
PayloadAfterAlways(ctx, payload, finalPayload) == Spread(payload, finalPayload)

\* sign, lines 106-108: the caller's object after the call
PayloadAfter(ctx, payload, finalPayload) ==
  IF Truthy(ctx.mutatePayload) THEN Spread(payload, finalPayload) ELSE payload

\* sign, lines 84-89
Header(ctx, payloadType) ==
  Spread([k \in HeaderKeys |->
            CASE k = "alg" -> ctx.algorithm
              [] k = "typ" -> IF payloadType = "object" THEN Str("JWT") ELSE Undef
              [] k = "kid" -> ctx.kid
              [] OTHER -> Absent],
         ctx.additionalHeader)

\* sign, lines 110-116
EncodedPayload(ctx, payloadType, payloadArg, now) ==
  IF payloadType # "string" THEN JsonBlock(FinalPayload(ctx, payloadArg.obj, now))
  ELSE base64UrlReplace(Base64(Utf8(payloadArg.chars)))

\* sign, lines 75-81: typeof payload, a Buffer counting as a string
PayloadType(payloadArg) == IF payloadArg.type = "buffer" THEN "string" ELSE payloadArg.type

\* sign, lines 121-128 and 162-167
Token(header, encodedPayload, signature) ==
  JsonBlock(header) \o <<Dot>> \o encodedPayload \o <<Dot>> \o signature

\* ------------------------------------------------------- the state machine
VARIABLES
  ctor,        \* "none" before createSigner, then "ok" or the code of its error
  opts,        \* the options createSigner was called with
  context,     \* the context createSigner bound to sign
  heap,        \* the caller's payload object
  calls,       \* the invocations of the signer, in call order
  decodeInput, \* the options and the token of the last decode
  decoded      \* the outcome of the last decode

vars == <<ctor, opts, context, heap, calls, decodeInput, decoded>>

NoContext ==
  [key |-> NoKey, algorithm |-> Undef, noTimestamp |-> Undef, mutatePayload |-> Undef,
   clockTimestamp |-> Undef, expiresIn |-> Undef, notBefore |-> Undef, kid |-> Undef,
   isAsync |-> FALSE, additionalHeader |-> NoHeader, fixedPayload |-> NoPayload]

NotDecoded ==
  [status |-> "none", code |-> "", stage |-> "", complete |-> FALSE,
   header |-> <<>>, payload |-> <<>>, signature |-> <<>>, input |-> <<>>]

\* One invocation of sign.  payloadArg (the argument as it was at the call),
\* now (Date.now() at the call) and key (what the key function gave) record
\* the invocation's inputs; header, encodedPayload and algorithm are its locals.
NotFetched == [err |-> FALSE, key |-> NoKey]

Invocation(payloadArg, now, status, error, header, encodedPayload, algorithm, token, signedWith) ==
  [payloadArg |-> payloadArg, now |-> now, status |-> status, error |-> error,
   header |-> header, encodedPayload |-> encodedPayload, algorithm |-> algorithm,
   token |-> token, signedWith |-> signedWith, fetched |-> NotFetched, primitiveOk |-> TRUE]

\* createSigner(options), called once
Construct(o) ==
  /\ ctor = "none"
  /\ LET r == createSigner(o)
     IN /\ ctor' = (IF r.ok THEN "ok" ELSE r.code)
        /\ context' = (IF r.ok THEN r.context ELSE context)
  /\ opts' = o
  /\ UNCHANGED <<heap, calls, decodeInput, decoded>>

\* The outcome of the synchronous part of sign(context, payload, cb), lines 72-176.
\* primitiveOk: whether createSignature returns (it throws on a key it cannot use).
signCall(ctx, payloadArg, now, primitiveOk) ==
  LET payloadType == PayloadType(payloadArg)
      header == Header(ctx, payloadType)
      encodedPayload == EncodedPayload(ctx, payloadType, payloadArg, now)
      signature == IF ctx.algorithm = Str("none") THEN <<>>
                   ELSE createSignature(ctx.algorithm.str, ctx.key, JsonBlock(header) \o <<Dot>> \o encodedPayload)
      Outcome(status, error, token, signedWith) ==
        [Invocation(payloadArg, now, status, error, header, encodedPayload, ctx.algorithm, token, signedWith)
           EXCEPT !.primitiveOk = primitiveOk]
  IN IF payloadType \notin {"string", "object", "null"}
       THEN Invocation(payloadArg, now, "thrown", "invalidType", NoHeader, <<>>, ctx.algorithm, <<>>, "")
     ELSE IF payloadType = "null"
       THEN Invocation(payloadArg, now, "thrown", "TypeError", NoHeader, <<>>, ctx.algorithm, <<>>, "")
     ELSE IF ctx.isAsync
       THEN Outcome("pending", "", <<>>, "")
     ELSE IF ctx.algorithm # Str("none") /\ ~primitiveOk
       THEN Outcome("thrown", "primitive", <<>>, ctx.algorithm.str)
     ELSE Outcome("returned", "", Token(header, encodedPayload, signature),
                  IF ctx.algorithm = Str("none") THEN "" ELSE ctx.algorithm.str)

\* The caller's object after sign has run on it
heapAfterSign(ctx, payloadArg, now) ==
  IF payloadArg.type = "object"
    THEN PayloadAfter(ctx, payloadArg.obj, FinalPayload(ctx, payloadArg.obj, now))
    ELSE heap

\* signer(payload, cb): one call.  arg.type = "object" passes the caller's object.
Sign(arg, now, primitiveOk) ==
  /\ ctor = "ok"
  /\ Len(calls) < MaxCalls
  /\ LET payloadArg == IF arg.type = "object" THEN [arg EXCEPT !.obj = heap] ELSE arg
     IN /\ calls' = Append(calls, signCall(context, payloadArg, now, primitiveOk))
        /\ heap' = heapAfterSign(context, payloadArg, now)
  /\ UNCHANGED <<ctor, opts, context, decodeInput, decoded>>

\* The callback sign hands to getAsyncKey, lines 132-173, for a pending call c.
\* fetched is what the key function gave: an error, or a value as the key.
keyCallback(c, fetched, primitiveOk) ==
  LET currentKey == IF fetched.key.type = "string" THEN [fetched.key EXCEPT !.type = "buffer"] ELSE fetched.key
      availableAlgorithm == detectPrivateKeyAlgorithm(currentKey)
      algorithm == IF Truthy(c.algorithm) THEN c.algorithm ELSE Str(availableAlgorithm)
      header == IF Truthy(c.algorithm) THEN c.header ELSE [c.header EXCEPT !["alg"] = algorithm]
      input == JsonBlock(header) \o <<Dot>> \o c.encodedPayload
      done == [c EXCEPT !.fetched = fetched, !.primitiveOk = primitiveOk]
  IN IF fetched.err THEN [done EXCEPT !.status = "rejected", !.error = "keyFetchingError"]
     ELSE IF currentKey.type # "buffer" THEN [done EXCEPT !.status = "rejected", !.error = "keyFetchingError"]
     ELSE IF availableAlgorithm = "" THEN [done EXCEPT !.status = "rejected", !.error = "invalidKey"]
     ELSE IF Truthy(c.algorithm) /\ ~checkIsCompatibleAlgorithm(c.algorithm.str, availableAlgorithm)
       THEN [done EXCEPT !.status = "rejected", !.error = "invalidKey"]
     ELSE IF ~primitiveOk
       THEN [done EXCEPT !.status = "rejected", !.error = "primitive", !.algorithm = algorithm,
                         !.header = header, !.signedWith = algorithm.str]
     ELSE [done EXCEPT !.status = "resolved", !.algorithm = algorithm, !.header = header,
                       !.signedWith = algorithm.str,
                       !.token = Token(header, c.encodedPayload,
                                       createSignature(algorithm.str, prepareKeyOrSecret(currentKey, algorithm), input))]

\* The key callback storing the algorithm it adopts in the shared context
\* instead of its own local
KeyFetchedSharedContext(i, fetched, primitiveOk) ==
  /\ i \in 1..Len(calls)
  /\ calls[i].status = "pending"
  /\ calls' = [calls EXCEPT ![i] = keyCallback(calls[i], fetched, primitiveOk)]
  /\ context' = [context EXCEPT !.algorithm = keyCallback(calls[i], fetched, primitiveOk).algorithm]
  /\ UNCHANGED <<ctor, opts, heap, decodeInput, decoded>>

\* The key function of pending call i completes
KeyFetched(i, fetched, primitiveOk) ==
  /\ i \in 1..Len(calls)
  /\ calls[i].status = "pending"
  /\ calls' = [calls EXCEPT ![i] = keyCallback(calls[i], fetched, primitiveOk)]
  /\ UNCHANGED <<ctor, opts, context, heap, decodeInput, decoded>>

\* createDecoder(options)(token)
Decode(options, tokenArg) ==
  /\ decoded' = decode(createDecoder(options), tokenArg)
  /\ decodeInput' = [options |-> options, token |-> tokenArg]
  /\ UNCHANGED <<ctor, opts, context, heap, calls>>

\* ------------------------------------------------------------- the inputs
DefaultOptions ==
  [key |-> NoKey, algorithm |-> Absent, noTimestamp |-> Absent, mutatePayload |-> Absent,
   clockTimestamp |-> Absent, expiresIn |-> Absent, notBefore |-> Absent,
   jti |-> Absent, aud |-> Absent, iss |-> Absent, sub |-> Absent, nonce |-> Absent,
   kid |-> Absent, header |-> [type |-> "undefined", obj |-> NoHeader]]

Secret == [type |-> "string", material |-> "secret"]
KeyFunction == [type |-> "function", material |-> ""]
LiteralKeys ==
  {[type |-> t, material |-> m] : t \in {"string", "buffer"}, m \in {"secret", "rsa", "ec", "ed"}}
    \cup {[type |-> "string", material |-> "public"]}
KeyOptions == LiteralKeys \cup {NoKey, KeyFunction, [type |-> "number", material |-> ""]}
AlgorithmOptions ==
  {Absent, Str("none"), Str("XS256"), Str("HS256"), Str("HS512"), Str("RS256"), Str("PS384"),
   Str("ES256"), Str("ES512"), Str("EdDSA")}

HeaderObject(k, v) == [type |-> "object", obj |-> [NoHeader EXCEPT ![k] = Str(v)]]
HeaderOptions ==
  {[type |-> "undefined", obj |-> NoHeader], [type |-> "string", obj |-> NoHeader],
   HeaderObject("alg", "none"), HeaderObject("alg", "RS256"), HeaderObject("typ", "JWT"),
   HeaderObject("kid", "k2"), HeaderObject("x", "1")}

\* Every key with every algorithm; and the custom headers with a secret, a key
\* function and no key, the algorithm declared or not
SignerOptions ==
  {[DefaultOptions EXCEPT !.key = k, !.algorithm = a] : k \in KeyOptions, a \in AlgorithmOptions}
    \cup {[DefaultOptions EXCEPT !.key = k, !.algorithm = a, !.header = h] :
            k \in {Secret, KeyFunction}, a \in {Absent, Str("HS256")}, h \in HeaderOptions}
    \cup {[DefaultOptions EXCEPT !.key = k, !.kid = Str("k1"), !.header = h] :
            k \in {Secret, KeyFunction}, h \in {[type |-> "undefined", obj |-> NoHeader], HeaderObject("kid", "k2")}}
    \cup {[DefaultOptions EXCEPT !.algorithm = Str("none"), !.header = h] : h \in HeaderOptions}

ObjectArg == [type |-> "object", obj |-> NoPayload, chars |-> <<>>]
StringArg(type, chars) == [type |-> type, obj |-> NoPayload, chars |-> chars]
PayloadArgs ==
  {ObjectArg, StringArg("string", <<97>>), StringArg("number", <<>>), StringArg("null", <<>>)}

\* What a key function can give: an error, or any value as the key
Fetches ==
  {[err |-> TRUE, key |-> NoKey]}
    \cup {[err |-> FALSE, key |-> k] :
            k \in {Secret, [type |-> "buffer", material |-> "rsa"], [type |-> "number", material |-> ""]}}

PayloadA == [NoPayload EXCEPT !["a"] = Num(1)]

InitWith(objects) ==
  /\ ctor = "none"
  /\ opts = DefaultOptions
  /\ context = NoContext
  /\ heap \in objects
  /\ calls = <<>>
  /\ decodeInput = [options |-> [json |-> Absent, complete |-> Absent], token |-> StringArg("undefined", <<>>)]
  /\ decoded = NotDecoded

\* The signer over keys, algorithms, custom headers and both modes
Init == InitWith({PayloadA})

Next ==
  \/ \E o \in SignerOptions : Construct(o)
  \/ \E arg \in PayloadArgs, ok \in BOOLEAN :
       (context.isAsync => ok) /\ Sign(arg, 2999, ok)
  \/ \E i \in 1..MaxCalls, f \in Fetches, ok \in BOOLEAN : KeyFetched(i, f, ok)

Spec == Init /\ [][Next]_vars

\* The claims composer: timing options, fixed claims and mutatePayload, over
\* payload objects with and without the claims the signer sets
FixedOptions ==
  {DefaultOptions,
   [DefaultOptions EXCEPT !.jti = Str("d")],
   [DefaultOptions EXCEPT !.jti = Str("d"), !.aud = Str("d"), !.iss = Str("d"),
                          !.sub = Str("d"), !.nonce = Str("d")]}

ClaimOptions ==
  {[f EXCEPT !.key = k, !.noTimestamp = nt, !.mutatePayload = mp, !.clockTimestamp = ct,
             !.expiresIn = ei, !.notBefore = nb] :
     f \in FixedOptions, k \in {Secret, KeyFunction}, nt \in {Absent, Bool(TRUE)},
     mp \in {Absent, Bool(TRUE)}, ct \in {Absent, Num(1500)}, ei \in {Absent, Num(700)},
     nb \in {Absent, Num(2300)}}
    \cup {[DefaultOptions EXCEPT !.key = Secret, !.expiresIn = ei] : ei \in {Num(0), Num(0 - 5), Str("1h")}}
    \cup {[DefaultOptions EXCEPT !.key = Secret, !.jti = Num(5)]}

ClaimObjects ==
  {NoPayload, PayloadA,
   [PayloadA EXCEPT !["iat"] = Num(5)],
   [NoPayload EXCEPT !["iat"] = Num(0)],
   [NoPayload EXCEPT !["iat"] = Num(7), !["exp"] = Num(9), !["nbf"] = Num(9)],
   [k \in PayloadKeys |-> IF k \in FixedKeys THEN Str("p") ELSE Absent]}

Now == {2999, 7000}

InitClaims == InitWith(ClaimObjects)

NextClaims ==
  \/ \E o \in ClaimOptions : Construct(o)
  \/ \E now \in Now : Sign(ObjectArg, now, TRUE)
  \/ \E i \in 1..MaxCalls, f \in {[err |-> TRUE, key |-> NoKey], [err |-> FALSE, key |-> Secret]} :
       KeyFetched(i, f, TRUE)

SpecClaims == InitClaims /\ [][NextClaims]_vars

\* String payloads: every string over "1", "a" and a two-byte character, as a
\* string and as a Buffer, one call per signer
Alphabet == {49, 97, 233}
Strings == UNION {[1..n -> Alphabet] : n \in 0..MaxStrLen}

StringOptions ==
  {[f EXCEPT !.key = k, !.header = h] :
     f \in {DefaultOptions, [DefaultOptions EXCEPT !.jti = Str("d"), !.expiresIn = Num(700), !.notBefore = Num(2300)]},
     k \in {Secret, KeyFunction},
     h \in {[type |-> "undefined", obj |-> NoHeader], HeaderObject("typ", "JWT"), HeaderObject("x", "1")}}

NextStrings ==
  \/ \E o \in StringOptions : Construct(o)
  \/ \E t \in {"string", "buffer"}, chars \in Strings :
       Sign(StringArg(t, chars), 2999, TRUE) /\ calls = <<>>
  \/ \E i \in 1..MaxCalls : KeyFetched(i, [err |-> FALSE, key |-> Secret], TRUE)

SpecStrings == Init /\ [][NextStrings]_vars

\* The decoder on every short token over ".", "M" and "Q" ("MQ" is the base64
\* of "1"), as a string, as a Buffer and as a value of another type
TokenChars == {Dot, Digit(12), Digit(16)}
Tokens == UNION {[1..n -> TokenChars] : n \in 0..MaxTokenLen}
DecoderOptions ==
  {[json |-> j, complete |-> c] : j \in {Absent, Undef, Bool(TRUE), Bool(FALSE)}, c \in {Absent, Bool(TRUE)}}

\* a token given as a string or as a Buffer
DecodeText(options, t, chars) == decoded.status = "none" /\ Decode(options, StringArg(t, chars))

\* a token that is neither
DecodeOther(options, t) == decoded.status = "none" /\ Decode(options, StringArg(t, <<>>))

NextDecode ==
  \/ \E options \in DecoderOptions, t \in {"string", "buffer"}, chars \in Tokens :
       DecodeText(options, t, chars)
  \/ \E options \in DecoderOptions, t \in {"number", "undefined", "object"} :
       DecodeOther(options, t)

SpecDecode == Init /\ [][NextDecode]_vars

\* ------------------------------------------------------------- the claims
HasToken(c) == c.status \in {"returned", "resolved"}

\* The header, claim set and signature a reader finds in a token
HeaderOf(token) == JsonParse(DecodeSegment(slice(token, 0, indexOf(token)))).obj
ClaimsOf(token) ==
  decode(createDecoder([json |-> Bool(TRUE), complete |-> Absent]), StringArg("string", token)).payload.obj
SignatureOf(token) == slice(token, lastIndexOf(token) + 1, Len(token))

OptionNumber(v) == IF v.type = "number" THEN v.num ELSE 0

\* The timestamp base in milliseconds, as the specification words it: the
\* payload's iat when it carries one
BaseIfCarried(c) ==
  IF c.payloadArg.obj["iat"].type = "number" THEN c.payloadArg.obj["iat"].num * 1000
  ELSE IF OptionNumber(opts.clockTimestamp) # 0 THEN OptionNumber(opts.clockTimestamp)
  ELSE c.now

\* The same, the payload's iat counting only when it is not zero
BaseIfNonZero(c) ==
  IF OptionNumber(c.payloadArg.obj["iat"]) # 0 THEN c.payloadArg.obj["iat"].num * 1000
  ELSE IF OptionNumber(opts.clockTimestamp) # 0 THEN OptionNumber(opts.clockTimestamp)
  ELSE c.now

Timed(c) == HasToken(c) /\ c.payloadArg.type = "object" /\ ~Truthy(opts.noTimestamp)

C2_Original ==
  \A i \in 1..Len(calls) :
    LET c == calls[i]
        p == c.payloadArg.obj
        d == ClaimsOf(c.token)
    IN (HasToken(c) /\ c.payloadArg.type = "object") =>
         /\ \A k \in FixedKeys :
              Get(d, k) = (IF opts[k].type # "absent" THEN opts[k] ELSE Get(p, k))
         /\ Get(d, "a") = Get(p, "a")
         /\ ~Truthy(opts.noTimestamp) => Get(d, "iat") = Num(BaseIfNonZero(c) \div 1000)
         /\ OptionNumber(opts.expiresIn) # 0 =>
              Get(d, "exp") = Num((BaseIfNonZero(c) + opts.expiresIn.num) \div 1000)
         /\ OptionNumber(opts.notBefore) # 0 =>
              Get(d, "nbf") = Num((BaseIfNonZero(c) + opts.notBefore.num) \div 1000)

Family(material) ==
  CASE material = "secret" -> "HMAC"
    [] material = "rsa" -> "RSA"
    [] material = "ec" -> "EC"
    [] material = "ed" -> "Ed"
    [] OTHER -> "none"

\* The compatibility matrix of declared algorithm and key family
Allowed(algorithm, family) ==
  \/ algorithm \in hsAlgorithms
  \/ algorithm \in rsaAlgorithms /\ family = "RSA"
  \/ algorithm \in esAlgorithms /\ family = "EC"
  \/ algorithm \in edAlgorithms /\ family = "Ed"

LiteralKeyGiven ==
  /\ ctor # "none"
  /\ opts.key.type \in {"string", "buffer"}
  /\ Family(opts.key.material) # "none"
  /\ opts.header.type # "string"

\* C3: with a literal key of an inferred family, construction with a declared
\* algorithm succeeds exactly when the matrix allows the pair and otherwise
\* fails with InvalidKey, no call having been made; with no algorithm declared
\* it succeeds and the key's inferred algorithm is adopted.
C3_KeyCompatibility ==
  LiteralKeyGiven =>
    IF opts.algorithm.type = "absent"
      THEN ctor = "ok" /\ context.algorithm = Str(detectPrivateKeyAlgorithm(opts.key))
    ELSE IF opts.algorithm.str \in hsAlgorithms \cup rsaAlgorithms \cup esAlgorithms \cup edAlgorithms
      THEN /\ ctor = "ok" <=> Allowed(opts.algorithm.str, Family(opts.key.material))
           /\ ctor # "ok" => ctor = "invalidKey" /\ calls = <<>>
    ELSE TRUE

\* PS384 declared with an RSA key: the signer is built and has signed
C3_Witness ==
  /\ LiteralKeyGiven
  /\ opts.algorithm = Str("PS384")
  /\ opts.key.material = "rsa"
  /\ ctor = "ok"
  /\ \E i \in 1..Len(calls) : calls[i].status = "returned"

\* C4 as stated: with a key function, no failure of a sign call is thrown
\* synchronously out of the call.
C4_Original ==
  \A i \in 1..Len(calls) : context.isAsync => calls[i].status # "thrown"

\* C5 as stated: a signer with a key function that gives K completes with
\* exactly the token of a signer constructed with K and the same options.
C5_Original ==
  \A i \in 1..Len(calls) :
    LET c == calls[i]
        immediate == createSigner([opts EXCEPT !.key = c.fetched.key])
    IN c.status = "resolved" =>
         /\ immediate.ok
         /\ signCall(immediate.context, c.payloadArg, c.now, TRUE).token = c.token

\* C6: after a call with a structured payload, the caller's object holds the
\* final claim set, the computed iat included, when mutatePayload is true, and
\* is exactly as it was before the call otherwise, in both modes.
C6_MutatePayload ==
  \A i \in 1..Len(calls) :
    LET c == calls[i]
    IN c.payloadArg.type = "object" =>
         IF Truthy(opts.mutatePayload)
           THEN i = Len(calls) =>
                  /\ Stringify(heap) = JsonParse(DecodeSegment(c.encodedPayload)).obj
                  /\ ~Truthy(opts.noTimestamp) => Get(heap, "iat") = Num(BaseIfNonZero(c) \div 1000)
           ELSE heap = c.payloadArg.obj

\* With a key function and mutatePayload, an object that had no iat has one
\* after the call, while the key is still being fetched
C6_Witness ==
  /\ Len(calls) = 1
  /\ Truthy(opts.mutatePayload)
  /\ calls[1].status = "pending"
  /\ calls[1].payloadArg.obj = PayloadA
  /\ heap # PayloadA
  /\ Get(heap, "iat") = Num(2)

\* C7 as stated: for every string payload and signer configuration the header
\* carries no typ and decoding with json false returns the original string.
C7_Original ==
  \A i \in 1..Len(calls) :
    LET c == calls[i]
        d == decode(createDecoder([json |-> Bool(FALSE), complete |-> Bool(TRUE)]),
                    StringArg("string", c.token))
    IN (HasToken(c) /\ PayloadType(c.payloadArg) = "string") =>
         /\ d.status = "returned"
         /\ Get(d.header.obj, "typ") = Undef
         /\ d.payload.kind = "string"
         /\ d.payload.chars = c.payloadArg.chars

DotCount(chars) == Cardinality({i \in 1..Len(chars) : chars[i].kind = "dot"})

\* C8: decode of a string or Buffer token with fewer than two separators fails
\* with Malformed and returns nothing; decode of a token of another type fails
\* with InvalidType.
C8_Malformed ==
  decoded.status # "none" =>
    /\ (decodeInput.token.type \in {"string", "buffer"} /\ DotCount(decodeInput.token.chars) < 2) =>
         decoded.status = "thrown" /\ decoded.code = "malformed"
    /\ decodeInput.token.type \notin {"string", "buffer"} =>
         decoded.status = "thrown" /\ decoded.code = "invalidType"

\* "MQ." with json false: one separator, a header that parses, Malformed
C8_Witness ==
  /\ decodeInput.token = StringArg("string", <<Digit(12), Digit(16), Dot>>)
  /\ decodeInput.options.json = Bool(FALSE)
  /\ decoded.status = "thrown"
  /\ decoded.code = "malformed"

\* The outcome of invocation c had it been the signer's only one
Alone(c) ==
  LET first == signCall(createSigner(opts).context, c.payloadArg, c.now,
                        IF c.status \in {"thrown", "returned"} THEN c.primitiveOk ELSE TRUE)
  IN IF c.status \in {"resolved", "rejected"} THEN keyCallback(first, c.fetched, c.primitiveOk)
     ELSE first

\* C9: the signer's configuration stays what createSigner made of the options,
\* and every invocation, whatever the order in which the key fetches of the
\* pending ones complete, has the outcome it would have had alone.
C9_Isolation ==
  ctor = "ok" =>
    /\ context = createSigner(opts).context
    /\ \A i \in 1..Len(calls) : calls[i] = Alone(calls[i])

\* No algorithm declared; the second call has adopted RS256 from its key while
\* the first, made earlier, is still pending
C9_Witness ==
  /\ Len(calls) >= 2
  /\ opts.algorithm.type = "absent"
  /\ calls[1].status = "pending"
  /\ calls[2].status = "resolved"
  /\ calls[2].algorithm = Str("RS256")

\* C10 as stated: the header's alg is the algorithm the signature was computed
\* with, the signature is empty exactly when that alg is "none", and custom
\* header fields leave alg, typ and kid as the signer derived them.
C10_Original ==
  \A i \in 1..Len(calls) :
    LET c == calls[i]
        h == HeaderOf(c.token)
    IN HasToken(c) =>
         /\ Get(h, "alg") = Str(IF c.signedWith = "" THEN "none" ELSE c.signedWith)
         /\ SignatureOf(c.token) = <<>> <=> Get(h, "alg") = Str("none")
         /\ Get(h, "typ") = (IF PayloadType(c.payloadArg) = "object" THEN Str("JWT") ELSE Undef)
         /\ Get(h, "kid") = Get(opts, "kid")

====
